---- MODULE Spec2Model ----
(***************************************************************************)
(* CollectWise payment-negotiation chatbot.                                *)
(*                                                                         *)
(* The chat endpoint exists in two files of the repository:                *)
(*   src/unnamed/part_000        (floor-based schedule, cent-valued link)  *)
(*   src/app/api/chat/route.ts   (rounded payment, decimal-dollar link)    *)
(* and the client is src/components/ChatInterface.tsx.                     *)
(*                                                                         *)
(* Money.  Every dollar amount is held as an integer number of hundredths  *)
(* (cents).  The inputs drawn for totalDebt (Debts) are values on which    *)
(* the IEEE-754 double evaluation of the source expressions                *)
(*   Math.floor(totalDebt / n * 100) / 100,  totalDebt - base * (n - 1),   *)
(*   Math.abs(final - base) > 0.01,          Math.round(x * 100)           *)
(* agrees with the cent arithmetic below for every n in 1..MaxTerm+1.      *)
(*                                                                         *)
(* Numbers written in a payment link are held in hundredths of the number  *)
(* as written: "termPaymentAmount=34285" is 3428500, "=342.86" is 34286.   *)
(*                                                                         *)
(* Text.  A message is a record of the features the code inspects with     *)
(* includes()/match(): keywords, the first number, the payment link.       *)
(***************************************************************************)
EXTENDS Integers, Sequences, FiniteSets, TLC

VARIABLES
  handler,               \* which file serves /api/chat: "part_000" or "route"
  requests,              \* requests in flight to the endpoint
  responses,             \* responses in flight to the client
  served,                \* the last exchange the endpoint completed
  negotiationState,      \* ChatInterface state: initial | negotiating | completed
  paymentPlan,           \* ChatInterface state: the recorded plan
  messages,              \* ChatInterface state: the chat transcript
  isTyping,
  isProcessingDocs,
  uploadedFiles,
  canUploadMore,
  requiresDocumentation,
  documentMessages,      \* file batches already analysed
  pendingAnalysis,       \* batches whose setTimeout(handleDocumentAnalysis) is armed
  error,
  approved,              \* a response with documentApproved = true has been received
  userIncome,            \* ChatInterface state: dollars per month, Missing for null
  restartTimers,         \* refreshChat's setTimeout callbacks that are armed
  refreshedAt,           \* the value of turns at the last New Chat (0: none)
  turns                  \* user actions (typed messages, uploads, New Chat) so far

vars == <<handler, requests, responses, served, negotiationState, paymentPlan,
          messages, isTyping, isProcessingDocs, uploadedFiles, canUploadMore,
          requiresDocumentation, documentMessages,
          pendingAnalysis, error, approved, userIncome, restartTimers,
          refreshedAt, turns>>

refreshVars == <<restartTimers, refreshedAt>>

clientVars == <<negotiationState, paymentPlan, messages, isTyping,
                isProcessingDocs, uploadedFiles, canUploadMore,
                requiresDocumentation, documentMessages,
                pendingAnalysis, error, approved, userIncome, refreshVars,
                turns>>

-----------------------------------------------------------------------------
(* Bounds *)

MaxTerm == 36          \* largest term length drawn for a direct request
MaxTurns == 3          \* user actions one conversation takes

-----------------------------------------------------------------------------
(* Values *)

Missing == -1          \* a regex group that did not match
NaN == -2              \* the text "NaN" / a NaN number
Infinity == -3         \* the number Infinity (division by termLength 0)

currentDebt == 240000  \* useState(2400), in cents

\* totalDebt values of direct requests, in cents: $0.03, $1.20, $2400.00,
\* $2500.00
Debts == {3, 120, currentDebt, 250000}

Abs(x) == IF x < 0 THEN -x ELSE x

\* An integer n as written in a link ("34285"), in hundredths.
Written(n) == n * 100

NoLink == [termLength |-> Missing, totalDebtAmount |-> Missing,
           termPaymentAmount |-> Missing, finalPaymentAmount |-> Missing]

NoPayment == [amount |-> Missing, finalPayment |-> Missing,
              termLength |-> Missing, hasVariation |-> FALSE]

\* A text: tmpl names the template (or "model" for the model's own words),
\* hasUrl is includes('collectwise.com/payments'), link holds the link's fields,
\* mentionsDoc is the client's documentation-keyword test, offers are the
\* (term, payment, final payment) triples the prose presents.
Text(tmpl, hasUrl, link, mentionsDoc, offers) ==
  [tmpl |-> tmpl, hasUrl |-> hasUrl, link |-> link,
   mentionsDoc |-> mentionsDoc, offers |-> offers]

Offer(term, amount, final) == [term |-> term, amount |-> amount, final |-> final]

-----------------------------------------------------------------------------
(* Inputs *)

MaxFiles == 1          \* files in one direct request

FileKinds == {"image", "pdf"}

RECURSIVE SeqsUpTo(_, _)
SeqsUpTo(S, n) ==
  IF n = 0 THEN {<<>>}
  ELSE LET shorter == SeqsUpTo(S, n - 1)
       IN shorter \cup {Append(q, x) : q \in shorter, x \in S}

FileLists == SeqsUpTo(FileKinds, MaxFiles)

\* A user message: accept is includes('yes'|'works'|'good'|'sure'), jobLoss is
\* includes('laid off'|'lost job'|'unemployed'), resist is includes('too high'|
\* 'expensive'|"can't afford"), month is includes('month'), num is the first
\* \d+ of the message (Missing when there is none), docWord is
\* includes('uploaded'|'documentation'|'review').  What handleSubmit reads of
\* its input besides: earn is includes('income'|'make'|'earn'), salary is
\* includes('salary'), year is includes('year'|'pretax'), annual is
\* includes('annual'|'yearly'), monthly is includes('monthly'), kSuffix is
\* match(/\d+[kK]/).  The messages drawn write their numbers without
\* thousands separators.
UserMsg(accept, jobLoss, resist, month, num, docWord) ==
  [accept |-> accept, jobLoss |-> jobLoss, resist |-> resist,
   month |-> month, num |-> num, docWord |-> docWord,
   earn |-> FALSE, salary |-> FALSE, year |-> FALSE, annual |-> FALSE,
   monthly |-> FALSE, kSuffix |-> FALSE]

MsgNo == UserMsg(FALSE, FALSE, FALSE, FALSE, Missing, FALSE)
MsgYes == UserMsg(TRUE, FALSE, FALSE, FALSE, Missing, FALSE)
MsgLaidOff == UserMsg(FALSE, TRUE, FALSE, FALSE, Missing, FALSE)
MsgTooHigh == UserMsg(FALSE, FALSE, TRUE, FALSE, Missing, FALSE)
MsgMonths(n) == UserMsg(FALSE, FALSE, FALSE, TRUE, n, FALSE)
MsgSureMonths(n) == UserMsg(TRUE, FALSE, FALSE, TRUE, n, FALSE)
\* "I've uploaded my documentation. Can you review it and let me know what
\* payment options are available?"
MsgUploaded == UserMsg(FALSE, FALSE, FALSE, FALSE, Missing, TRUE)
\* "I earn 3000", "I make 5K", "my salary is 50K", "annual", "monthly"
MsgEarn(n) == [MsgNo EXCEPT !.num = n, !.earn = TRUE]
MsgEarnK(n) == [MsgEarn(n) EXCEPT !.kSuffix = TRUE]
MsgSalaryK(n) == [MsgNo EXCEPT !.num = n, !.salary = TRUE, !.kSuffix = TRUE]
MsgAnnual == [MsgNo EXCEPT !.annual = TRUE]
MsgMonthly == [MsgNo EXCEPT !.month = TRUE, !.monthly = TRUE]

DirectMessages ==
  {MsgNo, MsgYes, MsgLaidOff, MsgTooHigh, MsgUploaded, MsgSureMonths(6),
   MsgSureMonths(20)}
    \cup {MsgMonths(n) : n \in 0..(MaxTerm + 1)}

\* A message of the transcript.  The clarifying question displays a figure,
\* K-suffixed or not ("5K", "$3,000"); amount is the dollar figure the regex
\* /\$(\d+(?:,\d{3})*)/ reads back from it.  All three are Missing / FALSE in
\* every other message.
Message(sender, tmpl, hasUrl) ==
  [sender |-> sender, tmpl |-> tmpl, hasUrl |-> hasUrl, amount |-> Missing,
   figure |-> Missing, kSuffix |-> FALSE]

NoMessage == Message("none", "", FALSE)

\* A request body {message, totalDebt, uploadedFiles} (conversationHistory is
\* read by the model only).  origin names the sender: "submit" (handleSubmit),
\* "docs" (handleDocumentAnalysis) or "direct" (any other caller of the
\* endpoint); hardship records whether the sending conversation had already
\* been told that its documentation was approved; id numbers the requests of
\* a conversation; previous is the last message of the transcript the sending
\* handler closed over (messages[messages.length - 1]).
Request(origin, id, message, totalDebt, files, hardship) ==
  [origin |-> origin, id |-> id, message |-> message, totalDebt |-> totalDebt,
   uploadedFiles |-> files, hardship |-> hardship, previous |-> NoMessage]

DirectRequests ==
  {Request("direct", 0, m, d, f, FALSE) :
     m \in DirectMessages, d \in Debts, f \in FileLists}

\* What the document classifier answers: a text starting with APPROVED, one
\* starting with approved in lower case, one starting with REJECTED, any
\* other text, an empty content, or an exception.
ClassifierOutcomes ==
  {"APPROVED", "approved", "REJECTED", "OTHER", "EMPTY", "THROWS"}

\* termPaymentAmount values a model reply may carry: none, NaN, 342.86
ModelAmounts == {Missing, NaN, 34286}

ModelLink(term, amount) ==
  [termLength |-> term, totalDebtAmount |-> Missing,
   termPaymentAmount |-> amount, finalPaymentAmount |-> Missing]

\* The model's replies: prose, prose naming documentation, and prose with a
\* payment link carrying (or not) a termLength and a termPaymentAmount.
ModelReplies ==
  {Text("model", FALSE, NoLink, d, {}) : d \in BOOLEAN}
    \cup {Text("model", TRUE, ModelLink(t, a), FALSE, {}) :
            t \in {Missing} \cup 0..MaxTerm, a \in ModelAmounts}

\* The model call: a reply, an empty content, an exception, or the 10 s timeout.
ModelFailures == {"THROWS", "TIMEOUT"}

ModelOutcome(kind, text) == [kind |-> kind, text |-> text]

NoText == Text("", FALSE, NoLink, FALSE, {})

ModelOutcomes ==
  {ModelOutcome("reply", r) : r \in ModelReplies}
    \cup {ModelOutcome(k, NoText) : k \in {"empty"} \cup ModelFailures}

-----------------------------------------------------------------------------
(* The endpoint: schedule arithmetic *)

\* Math.round(x * 100) as the link prints it: an integer, or Infinity.
LinkCents(x) == IF x = Infinity THEN Infinity ELSE Written(x)

Payment(amount, finalPayment, termLength, hasVariation) ==
  [amount |-> amount, finalPayment |-> finalPayment,
   termLength |-> termLength, hasVariation |-> hasVariation]

\* Math.round(totalDebt / termLength * 100), in cents (half rounds up).
RoundedCents(totalDebt, termLength) ==
  (2 * totalDebt + termLength) \div (2 * termLength)

\* part_000, generateFallbackResponse: const calculatePayment = (termLength) => ...
calculatePayment(totalDebt, termLength) ==
  LET flooredBase == totalDebt \div termLength
      remainder == totalDebt - flooredBase * (termLength - 1)
      problematic == remainder < 0 \/ remainder > flooredBase * 2
      basePayment == IF problematic THEN RoundedCents(totalDebt, termLength)
                     ELSE flooredBase
      finalPayment == IF problematic THEN basePayment ELSE remainder
  IN Payment(basePayment, finalPayment, termLength,
             Abs(finalPayment - basePayment) > 1)

\* route.ts, generateFallbackResponse: const calculatePayment = (termLength) => ...
\* It computes no final payment.
calculatePaymentRoute(totalDebt, termLength) ==
  LET roundedPayment == RoundedCents(totalDebt, termLength)
      difference == Abs(roundedPayment * termLength - totalDebt)
  IN Payment(roundedPayment, Missing, termLength, difference > 1)

\* part_000, POST: "ALWAYS recalculate with our bulletproof method".
\* termLength 0 divides by zero: exactPayment, basePayment and finalPayment are
\* Infinity and Math.abs(Infinity - Infinity) > 0.01 is false.
recalculate(totalDebt, termLength) ==
  IF termLength = 0
  THEN Payment(Infinity, Infinity, termLength, FALSE)
  ELSE LET basePayment == totalDebt \div termLength
           finalPayment == totalDebt - basePayment * (termLength - 1)
       IN Payment(basePayment, finalPayment, termLength,
                  Abs(finalPayment - basePayment) > 1)

\* part_000, POST: const correctUrl = hasVariation ? ... : ...
correctUrl(totalDebt, p) ==
  [termLength |-> p.termLength,
   totalDebtAmount |-> totalDebt,
   termPaymentAmount |-> LinkCents(p.amount),
   finalPaymentAmount |-> IF p.hasVariation THEN LinkCents(p.finalPayment)
                          ELSE LinkCents(p.amount)]

\* route.ts, POST: monthlyPayment is the model's own number unless that is
\* missing or NaN; the link carries it in dollars and has no final payment.
monthlyPaymentRoute(totalDebt, termLength, modelAmount) ==
  IF modelAmount \in {Missing, NaN}
  THEN IF termLength = 0 THEN Infinity ELSE RoundedCents(totalDebt, termLength)
  ELSE modelAmount

correctUrlRoute(totalDebt, termLength, modelAmount) ==
  [termLength |-> termLength,
   totalDebtAmount |-> totalDebt,
   termPaymentAmount |-> monthlyPaymentRoute(totalDebt, termLength, modelAmount),
   finalPaymentAmount |-> Missing]

-----------------------------------------------------------------------------
(* The endpoint: document analysis *)

isImage(file) == file = "image"

\* POST: uploadedFiles.filter(type starts with image/ or an image extension)
imageFiles(files) == SelectSeq(files, isImage)

Analysis(message, verdict) == [message |-> message, approved |-> verdict]

\* analysis.toUpperCase(), on the head of the classifier's text
toUpperCase(analysis) == IF analysis = "approved" THEN "APPROVED" ELSE analysis

\* A classifier that approves whatever it answers.
isApprovedAlways(analysis) == TRUE

\* analyzeDocuments: analysis.toUpperCase().startsWith('APPROVED')
isApproved(analysis) == toUpperCase(analysis) = "APPROVED"

\* part_000, analyzeDocuments: approved iff the classifier's text starts with
\* APPROVED; an empty content reads "REJECTED: Unable to analyze document"; an
\* exception is caught.  The option lists in the two messages are literals.
analyzeDocuments(classifier) ==
  IF classifier = "THROWS"
  THEN Analysis(Text("analysisFailed", FALSE, NoLink, TRUE, {}), FALSE)
  ELSE IF isApproved(classifier)
  THEN Analysis(Text("analysisApproved", FALSE, NoLink, TRUE,
                     {Offer(18, 13300, 13300), Offer(20, 12000, 12000),
                      Offer(24, 10000, 10000)}), TRUE)
  ELSE Analysis(Text("analysisRejected", FALSE, NoLink, TRUE,
                     {Offer(8, 30000, 30000), Offer(10, 24000, 24000),
                      Offer(12, 20000, 20000)}), FALSE)

\* route.ts, analyzeDocuments: the same decisions, messages without options.
analyzeDocumentsRoute(classifier) ==
  IF classifier = "THROWS"
  THEN Analysis(Text("analysisFailed", FALSE, NoLink, TRUE, {}), FALSE)
  ELSE IF isApproved(classifier)
  THEN Analysis(Text("analysisApproved", FALSE, NoLink, TRUE, {}), TRUE)
  ELSE Analysis(Text("analysisRejected", FALSE, NoLink, TRUE, {}), FALSE)

\* POST: analyzeDocuments is called iff some uploaded file is an image.
analysed(req) == Len(imageFiles(req.uploadedFiles)) > 0

-----------------------------------------------------------------------------
(* The endpoint: deterministic fallback *)

\* generateFallbackResponse: const hasDocumentation = uploadedFiles && length > 0
hasDocumentation(files) == Len(files) > 0

Branch(tmpl, term, link, doc) ==
  [tmpl |-> tmpl, term |-> term, link |-> link, doc |-> doc]

\* part_000, generateFallbackResponse: the branch taken, the term it passes to
\* calculatePayment, whether its text ends in a payment link, and whether the
\* text names documentation.
fallbackBranch(userMessage, hasDoc) ==
  LET n == userMessage.num IN
  IF userMessage.accept
  THEN Branch("accept", IF hasDoc THEN 18 ELSE 12, TRUE, hasDoc)
  ELSE IF userMessage.jobLoss
  THEN Branch("jobLoss", IF hasDoc THEN 12 ELSE 8, FALSE, TRUE)
  ELSE IF userMessage.resist
  THEN Branch("tooHigh", IF hasDoc THEN 18 ELSE 10, FALSE, hasDoc)
  ELSE IF userMessage.month /\ n # Missing /\ n >= 1 /\ n <= 8
  THEN Branch("shortTerm", n, TRUE, hasDoc)
  ELSE IF userMessage.month /\ n # Missing /\ n >= 1 /\ n <= 12
  THEN Branch("mediumTerm", n, TRUE, hasDoc)
  ELSE IF userMessage.month /\ n # Missing /\ n >= 1 /\ n <= 24 /\ ~hasDoc
  THEN Branch("needsDocumentation", 12, FALSE, TRUE)
  ELSE IF userMessage.month /\ n # Missing /\ n >= 1 /\ n <= 24 /\ hasDoc
  THEN Branch("longTerm", n, TRUE, hasDoc)
  ELSE IF userMessage.month /\ n # Missing /\ n > 24
  THEN Branch("beyondMaximum", IF hasDoc THEN 24 ELSE 12, FALSE, hasDoc)
  ELSE Branch("default", 8, FALSE, hasDoc)

\* route.ts, generateFallbackResponse: no term-request branches.
fallbackBranchRoute(userMessage, hasDoc) ==
  IF userMessage.accept
  THEN Branch("accept", IF hasDoc THEN 18 ELSE 12, TRUE, hasDoc)
  ELSE IF userMessage.jobLoss
  THEN Branch("jobLoss", IF hasDoc THEN 12 ELSE 8, FALSE, TRUE)
  ELSE IF userMessage.resist
  THEN Branch("tooHigh", IF hasDoc THEN 18 ELSE 10, FALSE, hasDoc)
  ELSE Branch("default", 8, FALSE, hasDoc)

\* part_000: the link at the end of the accept / term-request templates.
fallbackUrl(totalDebt, payment) ==
  [termLength |-> payment.termLength,
   totalDebtAmount |-> totalDebt,
   termPaymentAmount |-> LinkCents(payment.amount),
   finalPaymentAmount |-> IF payment.hasVariation
                          THEN LinkCents(payment.finalPayment)
                          ELSE LinkCents(payment.amount)]

\* route.ts: termPaymentAmount=${payment.amount}, in dollars.
fallbackUrlRoute(totalDebt, payment) ==
  [termLength |-> payment.termLength,
   totalDebtAmount |-> totalDebt,
   termPaymentAmount |-> payment.amount,
   finalPaymentAmount |-> Missing]

\* payment.description as an offer: base (and final) payment of the term.
described(payment) ==
  Offer(payment.termLength, payment.amount,
        IF payment.hasVariation /\ payment.finalPayment # Missing
        THEN payment.finalPayment ELSE payment.amount)

\* The payment the fallback computes for a request.
fallbackPayment(route, userMessage, totalDebt, files) ==
  IF route = "part_000"
  THEN calculatePayment(totalDebt,
                        fallbackBranch(userMessage, hasDocumentation(files)).term)
  ELSE calculatePaymentRoute(totalDebt,
                        fallbackBranchRoute(userMessage, hasDocumentation(files)).term)

generateFallbackResponse(userMessage, totalDebt, files) ==
  LET b == fallbackBranch(userMessage, hasDocumentation(files))
      payment == calculatePayment(totalDebt, b.term)
  IN Text(b.tmpl, b.link,
          IF b.link THEN fallbackUrl(totalDebt, payment) ELSE NoLink,
          b.doc, {described(payment)})

\* route.ts: the accept template carries the link and no description.
generateFallbackResponseRoute(userMessage, totalDebt, files) ==
  LET b == fallbackBranchRoute(userMessage, hasDocumentation(files))
      payment == calculatePaymentRoute(totalDebt, b.term)
  IN Text(b.tmpl, b.link,
          IF b.link THEN fallbackUrlRoute(totalDebt, payment) ELSE NoLink,
          b.doc, IF b.link THEN {} ELSE {described(payment)})

-----------------------------------------------------------------------------
(* The endpoint: POST *)

Apology == Text("apology", FALSE, NoLink, FALSE, {})

\* The JSON body {response, agreementReached, documentApproved}.
Reply(response, documentApproved) ==
  [response |-> response, agreementReached |-> response.hasUrl,
   documentApproved |-> documentApproved]

\* One completed exchange: the request, what the two external calls did, the
\* path taken ("success" or "fallback"), the schedule computed on the way and
\* the body returned.
Exchange(req, classifier, model, path, payment, out) ==
  [req |-> req, classifier |-> classifier, model |-> model, path |-> path,
   payment |-> payment, out |-> out]

NoExchange ==
  Exchange(Request("none", 0, MsgNo, 0, <<>>, FALSE), "NONE",
           ModelOutcome("none", NoText), "none", NoPayment,
           Reply(NoText, FALSE))

\* A reconciler that rewrites every link, taking 12 months when the reply
\* names no term length.
reconcileAnyLink(response, totalDebt) ==
  IF response.hasUrl
  THEN LET p == recalculate(totalDebt,
                            IF response.link.termLength = Missing THEN 12
                            ELSE response.link.termLength)
       IN [response EXCEPT !.link = correctUrl(totalDebt, p)]
  ELSE response

\* part_000, POST: if (urlMatch) { if (termMatch) { ... replace(urlRegex, correctUrl) } }
\* When hasVariation, "$X per month" prose is replaced by the breakdown.
reconcile(response, totalDebt) ==
  IF response.hasUrl /\ response.link.termLength # Missing
  THEN LET p == recalculate(totalDebt, response.link.termLength)
       IN [response EXCEPT
             !.link = correctUrl(totalDebt, p),
             !.offers = IF p.hasVariation
                        THEN {described(p) : o \in response.offers}
                        ELSE response.offers]
  ELSE response

\* route.ts, POST: the same scan, the link rebuilt around monthlyPayment.
reconcileRoute(response, totalDebt) ==
  IF response.hasUrl /\ response.link.termLength # Missing
  THEN [response EXCEPT
          !.link = correctUrlRoute(totalDebt, response.link.termLength,
                                   response.link.termPaymentAmount)]
  ELSE response

\* part_000, POST.
POSTpart(req, classifier, model) ==
  LET analysis == IF analysed(req) THEN analyzeDocuments(classifier)
                  ELSE Analysis(NoText, FALSE)
      \* documentAnalysis && message.includes('uploaded' | 'documentation' | 'review')
      useAnalysis == analysed(req) /\ req.message.docWord
  IN IF model.kind \in ModelFailures
     THEN Exchange(req, classifier, model, "fallback",
            IF useAnalysis THEN NoPayment
            ELSE fallbackPayment("part_000", req.message, req.totalDebt,
                                 req.uploadedFiles),
            Reply(IF useAnalysis THEN analysis.message
                  ELSE generateFallbackResponse(req.message, req.totalDebt,
                                                req.uploadedFiles),
                  analysis.approved))
     ELSE LET content == IF model.kind = "empty" THEN Apology ELSE model.text
              response == IF useAnalysis THEN analysis.message ELSE content
          IN Exchange(req, classifier, model, "success",
               IF response.hasUrl /\ response.link.termLength # Missing
               THEN recalculate(req.totalDebt, response.link.termLength)
               ELSE NoPayment,
               Reply(reconcile(response, req.totalDebt), analysis.approved))

\* route.ts, POST.  Its catch block returns no documentApproved field, which
\* the client reads as false.
POSTroute(req, classifier, model) ==
  LET analysis == IF analysed(req) THEN analyzeDocumentsRoute(classifier)
                  ELSE Analysis(NoText, FALSE)
  IN IF model.kind \in ModelFailures
     THEN Exchange(req, classifier, model, "fallback",
            fallbackPayment("route", req.message, req.totalDebt,
                            req.uploadedFiles),
            Reply(generateFallbackResponseRoute(req.message, req.totalDebt,
                                                req.uploadedFiles), FALSE))
     ELSE LET response == IF model.kind = "empty" THEN Apology ELSE model.text
          IN Exchange(req, classifier, model, "success",
               IF response.hasUrl /\ response.link.termLength # Missing
               THEN Payment(monthlyPaymentRoute(req.totalDebt,
                                                response.link.termLength,
                                                response.link.termPaymentAmount),
                            Missing, response.link.termLength, FALSE)
               ELSE NoPayment,
               Reply(reconcileRoute(response, req.totalDebt), analysis.approved))

Respond(route, req, classifier, model) ==
  IF route = "part_000" THEN POSTpart(req, classifier, model)
  ELSE POSTroute(req, classifier, model)

-----------------------------------------------------------------------------
(* The endpoint as an action *)

\* What the chat's own requests are answered with: a subset of the outcomes
\* drawn for direct requests.
ChatModelOutcomes ==
  {ModelOutcome("reply", Text("model", FALSE, NoLink, d, {})) : d \in BOOLEAN}
    \cup {ModelOutcome("reply", Text("model", TRUE, ModelLink(t, 34286), FALSE, {})) :
            t \in {Missing, 7, 20}}
    \cup {ModelOutcome("TIMEOUT", NoText)}

ChatClassifierOutcomes == {"APPROVED", "REJECTED", "THROWS"}

ModelOutcomesFor(req) ==
  IF req.origin = "direct" THEN ModelOutcomes ELSE ChatModelOutcomes

ClassifierOutcomesFor(req) ==
  IF ~analysed(req) THEN {"NONE"}
  ELSE IF req.origin = "direct" THEN ClassifierOutcomes
  ELSE ChatClassifierOutcomes

\* The body travelling back, with the request it answers.
\* path records the endpoint's path for the body: the client does not read it.
Response(req, x) ==
  [origin |-> req.origin, id |-> req.id, req |-> req, path |-> x.path,
   data |-> x.out]

POST(req) ==
  /\ req \in requests
  /\ \E classifier \in ClassifierOutcomesFor(req), model \in ModelOutcomesFor(req) :
       LET x == Respond(handler, req, classifier, model)
       IN /\ served' = x
          /\ responses' = responses \cup {Response(req, x)}
  /\ requests' = requests \ {req}
  /\ UNCHANGED <<handler, clientVars>>

-----------------------------------------------------------------------------
(* The client: ChatInterface.tsx *)

NoPlan == [totalDebt |-> Missing, termLength |-> Missing, monthlyPayment |-> Missing]

BotMessage(text) == Message("bot", text.tmpl, text.hasUrl)

\* What the user types in the chat.
TypedMessages ==
  {MsgNo, MsgYes, MsgLaidOff, MsgTooHigh, MsgMonths(6), MsgMonths(20),
   MsgEarn(3000), MsgEarnK(5), MsgSalaryK(50), MsgAnnual, MsgMonthly}

\* What the user uploads at once: files that pass the type and size filter
\* (<<>> when none does).
UploadBatches == {<<>>, <<"image">>, <<"pdf">>}

ClientInit ==
  /\ negotiationState = "initial"
  /\ paymentPlan = NoPlan
  /\ messages = <<Message("bot", "greeting", FALSE)>>
  /\ isTyping = FALSE
  /\ isProcessingDocs = FALSE
  /\ uploadedFiles = <<>>
  /\ canUploadMore = FALSE
  /\ requiresDocumentation = FALSE
  /\ documentMessages = {}
  /\ pendingAnalysis = {}
  /\ error = FALSE
  /\ approved = FALSE
  /\ userIncome = Missing
  /\ restartTimers = 0
  /\ refreshedAt = 0
  /\ turns = 0

\* handleSubmit up to the fetch.  The send button and the Enter key are live
\* only while neither isTyping nor isProcessingDocs.
handleSubmit(userInput) ==
  /\ ~isTyping /\ ~isProcessingDocs
  /\ turns < MaxTurns
  /\ turns' = turns + 1
  /\ error' = FALSE
  /\ IF negotiationState = "completed"
     THEN /\ messages' = messages \o <<Message("user", "typed", FALSE),
                                       Message("bot", "acknowledgement", FALSE)>>
          /\ UNCHANGED <<isTyping, requests>>
     ELSE /\ messages' = Append(messages, Message("user", "typed", FALSE))
          /\ isTyping' = TRUE
          /\ requests' = requests \cup
               {[Request("submit", turns + 1, userInput, currentDebt, <<>>,
                         approved)
                   EXCEPT !.previous = IF messages = <<>> THEN NoMessage
                                       ELSE messages[Len(messages)]]}
  /\ UNCHANGED <<handler, refreshVars, userIncome, responses, served, negotiationState, paymentPlan,
                 isProcessingDocs, uploadedFiles, canUploadMore,
                 requiresDocumentation, documentMessages, pendingAnalysis,
                 approved>>

\* handleSubmit: the urlMatch regex needs termLength=\d+, totalDebtAmount and
\* termPaymentAmount=\d+(\.\d{2})? in this order at the head of the link.
urlMatch(text) ==
  /\ text.hasUrl
  /\ text.link.termLength >= 0
  /\ text.link.totalDebtAmount >= 0
  /\ text.link.termPaymentAmount >= 0

\* handleSubmit: setPaymentPlan from the link; parseFloat reads the written
\* numbers as dollars.
planFromLink(link) ==
  [totalDebt |-> link.totalDebtAmount, termLength |-> link.termLength,
   monthlyPayment |-> link.termPaymentAmount]

\* handleSubmit: agreementReached without a urlMatch: the plan is read from
\* the prose ("N months", "$X per month") when the text offers a term.
planFromProse(text, plan) ==
  IF text.offers = {} THEN plan
  ELSE LET o == CHOOSE x \in text.offers : TRUE
       IN [totalDebt |-> currentDebt, termLength |-> o.term,
           monthlyPayment |-> o.amount]

\* handleSubmit, income handling: incomeMatch needs a digit in the input.
incomeThreshold == 2500

incomeMatch(userInput) == userInput.num # Missing

namesIncome(userInput) == userInput.earn \/ userInput.salary

isAnnual(userInput) ==
  userInput.year \/ userInput.annual \/ userInput.salary

isMonthly(userInput) == userInput.month

\* Math.round(income / 12)
monthlyOfAnnual(income) == (2 * income + 12) \div 24

\* The branch that asks "did you mean monthly or annual income?" and returns.
asksClarification(userInput) ==
  /\ incomeMatch(userInput) /\ namesIncome(userInput)
  /\ ~isAnnual(userInput) /\ ~isMonthly(userInput)
  /\ userInput.kSuffix \/ userInput.num >= incomeThreshold

\* The clarifying question: "$3,000" for a bare number, "5K" (no dollar sign)
\* for a K-suffixed one.
Clarification(userInput) ==
  [Message("bot", "clarification", FALSE)
     EXCEPT !.figure = userInput.num,
            !.kSuffix = userInput.kSuffix,
            !.amount = IF userInput.kSuffix THEN Missing ELSE userInput.num]

\* userIncome after the income branches (lines 179-209) that do not return.
statedIncome(userInput, income) ==
  IF ~(incomeMatch(userInput) /\ namesIncome(userInput)) THEN income
  ELSE IF isAnnual(userInput)
  THEN monthlyOfAnnual(IF userInput.kSuffix THEN userInput.num * 1000
                       ELSE userInput.num)
  ELSE userInput.num   \* monthly, or a bare number below the threshold

\* userIncome after the clarification branch (lines 212-226): the amount is
\* read back from the previous message when that was the clarifying question.
clarifiedIncome(userInput, previousMessage, income) ==
  IF /\ userInput.monthly \/ userInput.annual
     /\ previousMessage.tmpl = "clarification"
     /\ previousMessage.amount # Missing
  THEN IF userInput.annual THEN monthlyOfAnnual(previousMessage.amount)
       ELSE previousMessage.amount
  ELSE income

\* handleSubmit after the fetch resolved with an OK status.
handleSubmitResponse(resp) ==
  /\ resp \in responses
  /\ resp.origin = "submit"
  /\ responses' = responses \ {resp}
  /\ isTyping' = FALSE
  /\ IF asksClarification(resp.req.message)
     THEN /\ messages' = messages \o <<BotMessage(resp.data.response),
                                       Clarification(resp.req.message)>>
          /\ UNCHANGED <<userIncome, requiresDocumentation, canUploadMore,
                         negotiationState, paymentPlan>>
     ELSE /\ messages' = Append(messages, BotMessage(resp.data.response))
          /\ userIncome' =
               clarifiedIncome(resp.req.message, resp.req.previous,
                               statedIncome(resp.req.message, userIncome))
          /\ IF resp.data.response.mentionsDoc
             THEN requiresDocumentation' = TRUE /\ canUploadMore' = TRUE
             ELSE UNCHANGED <<requiresDocumentation, canUploadMore>>
          /\ IF urlMatch(resp.data.response) \/ resp.data.agreementReached
             THEN /\ negotiationState' = "completed"
                  /\ paymentPlan' =
                       IF urlMatch(resp.data.response)
                       THEN planFromLink(resp.data.response.link)
                       ELSE planFromProse(resp.data.response, paymentPlan)
             ELSE /\ negotiationState' = "negotiating"
                  /\ UNCHANGED paymentPlan
  /\ UNCHANGED <<handler, refreshVars, requests, served, isProcessingDocs,
                 uploadedFiles,
                 documentMessages, pendingAnalysis, error, approved, turns>>

\* handleSubmit's catch: the fetch rejected or the status was not OK.
handleSubmitError(req) ==
  /\ req \in requests
  /\ req.origin = "submit"
  /\ requests' = requests \ {req}
  /\ isTyping' = FALSE
  /\ error' = TRUE
  /\ negotiationState' = "negotiating"
  /\ messages' = Append(messages, Message("bot", "offline", FALSE))
  /\ UNCHANGED <<handler, refreshVars, userIncome, responses, served, paymentPlan, isProcessingDocs,
                 uploadedFiles, canUploadMore, requiresDocumentation,
                 documentMessages, pendingAnalysis, approved, turns>>

\* handleFileUpload.  The upload area is rendered while requiresDocumentation
\* and canUploadMore hold (the user expands it at will).  The analysis is
\* started by a timer that keeps the render's isProcessingDocs,
\* documentMessages and negotiationState.
handleFileUpload(batch) ==
  /\ requiresDocumentation /\ canUploadMore
  /\ turns < MaxTurns
  /\ turns' = turns + 1
  /\ IF batch = <<>>
     THEN /\ error' = TRUE
          /\ UNCHANGED <<uploadedFiles, canUploadMore, pendingAnalysis>>
     ELSE /\ error' = FALSE
          /\ uploadedFiles' = uploadedFiles \o batch
          /\ canUploadMore' = FALSE
          /\ pendingAnalysis' = pendingAnalysis \cup
               {[files |-> uploadedFiles \o batch,
                 isProcessingDocs |-> isProcessingDocs,
                 documentMessages |-> documentMessages,
                 negotiationState |-> negotiationState]}
  /\ UNCHANGED <<handler, refreshVars, userIncome, requests, responses, served, negotiationState,
                 paymentPlan, messages, isTyping, isProcessingDocs,
                 requiresDocumentation, documentMessages, approved>>

\* handleDocumentAnalysis up to the fetch (the timer armed by the upload fires).
handleDocumentAnalysis(timer) ==
  /\ timer \in pendingAnalysis
  /\ pendingAnalysis' = pendingAnalysis \ {timer}
  /\ IF timer.isProcessingDocs \/ timer.files \in timer.documentMessages
     THEN UNCHANGED <<isProcessingDocs, isTyping, documentMessages, requests>>
     ELSE /\ isProcessingDocs' = TRUE
          /\ isTyping' = TRUE
          /\ documentMessages' = documentMessages \cup {timer.files}
          /\ requests' = requests \cup
               {Request("docs", turns, MsgUploaded, currentDebt, timer.files,
                        approved)}
  /\ UNCHANGED <<handler, refreshVars, userIncome, responses, served, negotiationState, paymentPlan,
                 messages, uploadedFiles, canUploadMore, requiresDocumentation,
                 error, approved, turns>>

\* handleDocumentAnalysis after the fetch resolved.
handleDocumentAnalysisResponse(resp) ==
  /\ resp \in responses
  /\ resp.origin = "docs"
  /\ responses' = responses \ {resp}
  /\ isTyping' = FALSE
  /\ messages' = Append(messages, BotMessage(resp.data.response))
  /\ IF resp.data.documentApproved
     THEN requiresDocumentation' = FALSE /\ canUploadMore' = FALSE
     ELSE canUploadMore' = TRUE /\ UNCHANGED requiresDocumentation
  /\ approved' = (approved \/ resp.data.documentApproved)
  /\ isProcessingDocs' = FALSE
  /\ UNCHANGED <<handler, refreshVars, userIncome, requests, served, negotiationState, paymentPlan,
                 uploadedFiles, documentMessages, pendingAnalysis, error, turns>>

\* handleDocumentAnalysis's catch and finally: the fetch rejected.
handleDocumentAnalysisError(req) ==
  /\ req \in requests
  /\ req.origin = "docs"
  /\ requests' = requests \ {req}
  /\ isTyping' = FALSE
  /\ messages' = Append(messages, Message("bot", "receivedDocuments", FALSE))
  /\ isProcessingDocs' = FALSE
  /\ UNCHANGED <<handler, refreshVars, userIncome, responses, served, negotiationState, paymentPlan,
                 uploadedFiles, canUploadMore, requiresDocumentation,
                 documentMessages, pendingAnalysis, error, approved, turns>>

\* refreshChat (the New Chat button, always enabled): every piece of state is
\* reset except documentMessages; the fetches in flight and the analysis
\* timers are not cancelled.  The greeting is restored by a timer.
refreshChat ==
  /\ turns < MaxTurns
  /\ turns' = turns + 1
  /\ refreshedAt' = turns + 1
  /\ messages' = <<>>
  /\ isTyping' = FALSE
  /\ negotiationState' = "initial"
  /\ paymentPlan' = NoPlan
  /\ error' = FALSE
  /\ requiresDocumentation' = FALSE
  /\ userIncome' = Missing
  /\ uploadedFiles' = <<>>
  /\ canUploadMore' = FALSE
  /\ isProcessingDocs' = FALSE
  /\ approved' = FALSE
  /\ restartTimers' = restartTimers + 1
  /\ UNCHANGED <<handler, requests, responses, served, documentMessages,
                 pendingAnalysis>>

\* refreshChat's timer, 500 ms later: setMessages([initialMessage]).
restartChat ==
  /\ restartTimers > 0
  /\ restartTimers' = restartTimers - 1
  /\ messages' = <<Message("bot", "greeting", FALSE)>>
  /\ UNCHANGED <<handler, requests, responses, served, negotiationState,
                 paymentPlan, isTyping, isProcessingDocs, uploadedFiles,
                 canUploadMore, requiresDocumentation, documentMessages,
                 pendingAnalysis, error, approved, userIncome, refreshedAt,
                 turns>>

-----------------------------------------------------------------------------
(* Specifications *)

Routes == {"part_000", "route"}

\* A conversation in the chat, served by the endpoint.
Init ==
  /\ handler \in Routes
  /\ requests = {}
  /\ responses = {}
  /\ served = NoExchange
  /\ ClientInit

Next ==
  \/ \E userInput \in TypedMessages : handleSubmit(userInput)
  \/ \E req \in requests : POST(req)
  \/ \E resp \in responses : handleSubmitResponse(resp)
  \/ \E req \in requests : handleSubmitError(req)
  \/ \E batch \in UploadBatches : handleFileUpload(batch)
  \/ \E timer \in pendingAnalysis : handleDocumentAnalysis(timer)
  \/ \E resp \in responses : handleDocumentAnalysisResponse(resp)
  \/ \E req \in requests : handleDocumentAnalysisError(req)
  \/ refreshChat
  \/ restartChat

Spec == Init /\ [][Next]_vars

\* The endpoint alone, answering one request from any caller.
InitServer ==
  /\ handler \in Routes
  /\ \E req \in DirectRequests : requests = {req}
  /\ responses = {}
  /\ served = NoExchange
  /\ ClientInit

NextServer == \E req \in requests : POST(req)

SpecServer == InitServer /\ [][NextServer]_vars

\* POST suspended at `await analyzeDocuments(imageFiles)`: the classifier call
\* (no Promise.race around it) never settles, so the handler neither reaches
\* the model call nor its catch block, and no body is returned.
Suspended(req) ==
  Exchange(req, "PENDING", ModelOutcome("none", NoText), "suspended",
           NoPayment, Reply(NoText, FALSE))

POSTSuspended(req) ==
  /\ req \in requests
  /\ analysed(req)
  /\ requests' = requests \ {req}
  /\ served' = Suspended(req)
  /\ UNCHANGED <<handler, responses, clientVars>>

\* The endpoint with external calls that may never return: the model call
\* loses the race against the 10 s timer (outcome TIMEOUT of POST), the
\* classifier call is awaited for ever.  The runtime keeps running a handler
\* that can take a step.
NextServerLive ==
  \/ \E req \in requests : POST(req)
  \/ \E req \in requests : POSTSuspended(req)

\* One request in flight, with or without an image among its files.
LiveRequests ==
  {Request("direct", 0, m, currentDebt, f, FALSE) :
     m \in {MsgNo, MsgUploaded}, f \in FileLists}

InitServerLive ==
  /\ handler \in Routes
  /\ \E req \in LiveRequests : requests = {req}
  /\ responses = {}
  /\ served = NoExchange
  /\ ClientInit

SpecServerLive ==
  InitServerLive /\ [][NextServerLive]_vars /\ WF_vars(NextServerLive)

-----------------------------------------------------------------------------
(* Claims *)

\* The caps of the hardship gate: 12 months, 24 with approved documentation.
baseCap == 12
extendedCap == 24

\* The classifier approved the documents of the request.
approvedByClassifier(x) == analysed(x.req) /\ isApproved(x.classifier)

\* The endpoint rewrote the link of the text it returned.
rewritten(x) ==
  /\ x.path = "success"
  /\ x.model.kind = "reply"
  /\ x.out.response.tmpl = "model"
  /\ x.model.text.hasUrl
  /\ x.model.text.link.termLength # Missing

\* A message that asks for n months and says nothing else the fallback reads.
asksMonths(m, n) == m = MsgMonths(n)

\* C1: with money in whole cents, for every debt > 0 and every term length
\* 1..36, the schedule the part_000 endpoint computes (the reconciler's
\* recalculation and the fallback's calculatePayment) satisfies
\* base * (termLength - 1) + final = debt.
C1_ScheduleSumsToDebt ==
  (/\ handler = "part_000"
   /\ served.req.totalDebt > 0
   /\ served.payment.termLength >= 1
   /\ served.payment.termLength <= 36)
  => served.payment.amount * (served.payment.termLength - 1)
       + served.payment.finalPayment = served.req.totalDebt

\* C2: for every debt and term length >= 1 the base payment calculatePayment
\* computes is debt / termLength truncated to the cent, and the final payment
\* is debt - base * (termLength - 1).
C2_BaseIsTruncatedQuotient ==
  (served.path = "fallback" /\ served.payment.termLength >= 1)
  => /\ served.payment.amount =
          served.req.totalDebt \div served.payment.termLength
     /\ served.payment.finalPayment =
          served.req.totalDebt
            - served.payment.amount * (served.payment.termLength - 1)

\* C3: every payment link the part_000 endpoint returns, rewritten by the
\* reconciler or produced by the fallback, is penny-exact:
\* termPaymentAmount * (N - 1) + finalPaymentAmount is the debt in cents.
C3_LinkIsPennyExact ==
  LET link == served.out.response.link IN
  (/\ handler = "part_000"
   /\ served.path = "fallback" \/ rewritten(served)
   /\ served.out.response.hasUrl
   /\ link.termLength >= 1)
  => link.termPaymentAmount * (link.termLength - 1) + link.finalPaymentAmount
       = Written(served.req.totalDebt)

\* C4: on the model-success path no payment link whose termLength exceeds the
\* cap of the request's hardship state (12 without approved documents, 24
\* with) is in the response.
C4_NoOverCapLinkOnSuccess ==
  LET link == served.out.response.link IN
  (/\ served.path = "success"
   /\ served.out.response.hasUrl
   /\ link.termLength # Missing)
  => link.termLength <= (IF served.out.documentApproved THEN extendedCap
                         ELSE baseCap)

\* C5: on the fallback path a returned payment link has termLength <= 12
\* unless the classifier approved the request's documents.
C5_FallbackCapNeedsApproval ==
  (served.path = "fallback" /\ served.out.response.hasUrl)
  => \/ served.out.response.link.termLength <= baseCap
     \/ approvedByClassifier(served)

\* C6: the link a model reply is rewritten to depends on the debt and the
\* reply's termLength only: the same reply with any other termPaymentAmount
\* (a number, NaN, none) is rewritten to the same link.
C6_LinkIndependentOfModelAmount ==
  rewritten(served)
  => \A a \in ModelAmounts :
       LET other == [served.model EXCEPT !.text.link.termPaymentAmount = a]
       IN Respond(handler, served.req, served.classifier, other).out.response.link
            = served.out.response.link

\* C7: when the model call fails during a turn taken in the negotiating
\* phase, the turn ends with a response shown without error and with the
\* phase still negotiating.
C7_FallbackKeepsNegotiating ==
  [][\A resp \in responses :
       (/\ resp.origin = "submit"
        /\ resp.path = "fallback"
        /\ negotiationState = "negotiating"
        /\ resp \notin responses')
       => (negotiationState' = "negotiating" /\ ~error')]_vars

\* C8: once the negotiation state is completed, a document upload made in
\* that state causes no new request to the endpoint.
C8_CompletedIsTerminal ==
  [][\A timer \in pendingAnalysis :
       (/\ timer.negotiationState = "completed"
        /\ negotiationState = "completed"
        /\ timer \notin pendingAnalysis')
       => requests' \subseteq requests]_vars

\* C9: once the documentation has been approved, every later request of the
\* conversation is processed with the approval in force.
C9_ApprovedStaysInForce ==
  served.req.hardship => served.out.documentApproved

\* C10: after the documentation has been approved, a request for t months,
\* 13 <= t <= 24, answered by the deterministic policy carries a payment link
\* with termLength = t.
C10_ApprovedLongTermAccepted ==
  \A t \in (baseCap + 1)..extendedCap :
    (/\ served.req.hardship
     /\ served.path = "fallback"
     /\ asksMonths(served.req.message, t))
    => /\ served.out.response.hasUrl
       /\ served.out.response.link.termLength = t

\* The text says that longer terms need documentation of hardship:
\* "... would require documentation of financial hardship" (part_000:389),
\* "I'll need to see some recent documentation" (part_000:352).
statesDocumentationRequired(text) ==
  text.tmpl \in {"needsDocumentation", "jobLoss"}

\* The cap in force for a request: 24 once the classifier approved its
\* documents, 12 otherwise.
capOf(x) == IF approvedByClassifier(x) THEN extendedCap ELSE baseCap

\* C11: when hardship is not approved and the user requests a term length
\* t > 12, the deterministic policy of part_000 rejects the request: the
\* response carries no payment link for t, counter-offers the 12-month
\* schedule and states that documentation is required for longer terms.
C11_LongTermRejectedWithoutApproval ==
  \A t \in (baseCap + 1)..(MaxTerm + 1) :
    (/\ handler = "part_000"
     /\ served.path = "fallback"
     /\ ~approvedByClassifier(served)
     /\ asksMonths(served.req.message, t))
    => /\ ~(served.out.response.hasUrl
            /\ served.out.response.link.termLength = t)
       /\ \E o \in served.out.response.offers : o.term = baseCap
       /\ statesDocumentationRequired(served.out.response)

\* C12: when the message explicitly requests a term length t with
\* 1 <= t <= the cap in force, the deterministic policy of part_000 honours
\* it: the offer or the payment link of the response is for exactly t months,
\* whatever other words the message contains.
C12_TermWithinCapHonoured ==
  \A t \in 1..extendedCap :
    (/\ handler = "part_000"
     /\ served.path = "fallback"
     /\ served.req.message.month
     /\ served.req.message.num = t
     /\ t <= capOf(served))
    => \/ (served.out.response.hasUrl
           /\ served.out.response.link.termLength = t)
       \/ \E o \in served.out.response.offers : o.term = t

\* A link field that holds a whole number (no decimal part, not NaN or
\* Infinity, not absent).  Fields are held in hundredths of the number written.
wholeNumber(x) == x >= 0 /\ x % 100 = 0

\* C13: every payment link the server writes for a term of at least one
\* month (the reconciler's rewrite or the fallback's link) carries
\* termLength, totalDebtAmount,
\* termPaymentAmount and finalPaymentAmount, and both payment fields are
\* whole numbers of cents, termPaymentAmount being the base payment times 100.
C13_LinkFieldsAreIntegerCents ==
  LET link == served.out.response.link IN
  (/\ served.out.response.hasUrl
   /\ served.path = "fallback" \/ rewritten(served)
   /\ link.termLength >= 1)
  => /\ link.termLength # Missing
     /\ link.totalDebtAmount # Missing
     /\ wholeNumber(link.termPaymentAmount)
     /\ wholeNumber(link.finalPaymentAmount)
     /\ link.termPaymentAmount = Written(served.payment.amount)

\* C14: for every debt and every term length >= 1 found in a model reply, the
\* termPaymentAmount and finalPaymentAmount of the link the part_000
\* reconciler writes, read back as cents, are the base and final payment of
\* calculatePayment for that debt and term length.
C14_LinkRoundTripsToSchedule ==
  LET link == served.out.response.link
      direct == calculatePayment(served.req.totalDebt, link.termLength)
  IN (/\ handler = "part_000"
      /\ rewritten(served)
      /\ link.termLength >= 1)
     => /\ link.termPaymentAmount = Written(direct.amount)
        /\ link.finalPaymentAmount = Written(direct.finalPayment)

\* C16: when the model's reply contains a payment link with termLength=0,
\* the response returned contains no payment link for that term.
C16_ZeroTermNotSurfaced ==
  (/\ served.path = "success"
   /\ served.model.kind = "reply"
   /\ served.model.text.hasUrl
   /\ served.model.text.link.termLength = 0)
  => ~(/\ served.out.response.hasUrl
       /\ served.out.response.link.termLength = 0)

\* A well-formed payment link: it carries a term length and a payment amount
\* that is a number.
wellFormedLink(text) ==
  /\ text.hasUrl
  /\ text.link.termLength >= 0
  /\ text.link.termPaymentAmount >= 0

\* C15: a typed turn is reported as agreement reached, and moves the
\* conversation to completed, only if the response text contains a
\* well-formed payment link.
C15_CompletedOnlyOnWellFormedLink ==
  [][\A resp \in responses :
       (/\ resp.origin = "submit"
        /\ resp \notin responses'
        /\ resp.data.agreementReached \/ negotiationState' = "completed")
       => wellFormedLink(resp.data.response)]_vars

\* Classifier replies that begin with APPROVED, in either letter case.
ApprovingReplies == {"APPROVED", "approved"}

\* C17 (as stated): documentApproved is true only when the classifier's reply
\* begins with APPROVED.
C17_ApprovedOnlyOnUpperCaseReply ==
  served.out.documentApproved
  => (analysed(served.req) /\ served.classifier = "APPROVED")

\* C17 (amended): when the classifier call fails, or its reply does not begin
\* with APPROVED in either letter case, the request is processed with
\* documentApproved = false and a response is still returned;
\* documentApproved is true only when the classifier was called and its reply
\* begins with APPROVED in either letter case.
C17_ApprovedOnlyOnApprovingReply ==
  served.path # "none"
  => /\ served.out.documentApproved
          => (analysed(served.req) /\ served.classifier \in ApprovingReplies)
     /\ served.classifier \notin ApprovingReplies
          => /\ ~served.out.documentApproved
             /\ \E resp \in responses :
                  resp.req = served.req /\ resp.data.response # NoText

\* The classifier call threw on an image and the request was answered.
C17_ClassifierFailureAnswered ==
  /\ analysed(served.req)
  /\ served.classifier = "THROWS"
  /\ ~served.out.documentApproved
  /\ \E resp \in responses : resp.req = served.req

\* C18: every request to the endpoint eventually receives a response, even
\* when the model call or the document classifier call never returns.
C18_EveryRequestAnswered ==
  (requests # {}) ~> (responses # {})

\* Requests of the current conversation (sent since the last New Chat) whose
\* response the client has not handled yet.
inFlight ==
  Cardinality({req \in requests : req.id >= refreshedAt})
    + Cardinality({resp \in responses : resp.id >= refreshedAt})

\* C20: within one conversation at most one request to the endpoint is in
\* flight at any time.
C20_OneRequestInFlight == inFlight <= 1

\* An income figure that is K-suffixed or a bare number at or above the
\* threshold, stated with no monthly or annual qualifier.
ambiguousFigure(userInput) ==
  /\ incomeMatch(userInput) /\ namesIncome(userInput)
  /\ userInput.kSuffix \/ userInput.num >= incomeThreshold
  /\ ~userInput.month /\ ~userInput.monthly
  /\ ~userInput.year /\ ~userInput.annual

\* C19: when the user states an ambiguous income figure, the turn stores no
\* income estimate and ends with the clarifying question (monthly or annual?).
C19_AmbiguousIncomeAsksFirst ==
  [][\A resp \in responses :
       (/\ resp.origin = "submit"
        /\ resp \notin responses'
        /\ ambiguousFigure(resp.req.message))
       => /\ userIncome' = userIncome
          /\ messages'[Len(messages')].tmpl = "clarification"]_vars

\* C21: every offer (term length, payment amount) in a response of the
\* part_000 endpoint is the schedule calculatePayment computes from the
\* request's totalDebt for that term length, the option lists of the
\* document-analysis reply included.
C21_OffersAreComputedSchedule ==
  handler = "part_000"
  => \A o \in served.out.response.offers :
       o.term >= 1
       => o.amount = calculatePayment(served.req.totalDebt, o.term).amount

\* C22: for every debt of at least $1.00 and every term length 1..36, the
\* schedule the part_000 endpoint computes (calculatePayment and the
\* reconciler's recalculation) satisfies 0 <= final - base <= base.
C22_FinalWithinOneBase ==
  (/\ handler = "part_000"
   /\ served.req.totalDebt >= 100
   /\ served.payment.termLength >= 1
   /\ served.payment.termLength <= 36)
  => /\ 0 <= served.payment.finalPayment - served.payment.amount
     /\ served.payment.finalPayment - served.payment.amount
          <= served.payment.amount

\* The floor formula makes the final payment negative or more than double the
\* base payment.
floorFormulaProblematic(totalDebt, termLength) ==
  LET base == totalDebt \div termLength
      final == totalDebt - base * (termLength - 1)
  IN final < 0 \/ final > base * 2

\* C23: calculatePayment applies no special case: also when the floor formula
\* makes the final payment negative or more than double the base payment, it
\* returns base = floor(debt / termLength) and
\* final = debt - base * (termLength - 1).
C23_NoSpecialCase ==
  (/\ handler = "part_000"
   /\ served.path = "fallback"
   /\ served.payment.termLength >= 1
   /\ floorFormulaProblematic(served.req.totalDebt, served.payment.termLength))
  => /\ served.payment.amount =
          served.req.totalDebt \div served.payment.termLength
     /\ served.payment.finalPayment =
          served.req.totalDebt
            - (served.req.totalDebt \div served.payment.termLength)
                * (served.payment.termLength - 1)

\* The turn carries no uploaded documents and the model answered with a text
\* that has no payment link, or a link in which no termLength is found.
replyWithoutTerm(x) ==
  /\ x.req.uploadedFiles = <<>>
  /\ ~x.model.text.hasUrl \/ x.model.text.link.termLength = Missing

\* C24 (as stated): on a turn without uploaded documents, when the model's
\* reply (empty or not) contains no payment link, or no term length can be
\* found for it, the response text is the model's reply unchanged.
C24_ReplyWithoutTermUnchanged ==
  (served.model.kind \in {"reply", "empty"} /\ replyWithoutTerm(served))
  => served.out.response = served.model.text

\* C24 (amended): on a turn without uploaded documents, when the model's
\* reply is not empty and contains no payment link, or no term length can be
\* found for it, the response text is the model's reply unchanged.
C24_NonEmptyReplyWithoutTermUnchanged ==
  (served.model.kind = "reply" /\ replyWithoutTerm(served))
  => served.out.response = served.model.text

\* A reply whose payment link names no term length was returned as it was.
C24_LinkWithoutTermReturned ==
  /\ served.model.kind = "reply"
  /\ replyWithoutTerm(served)
  /\ served.model.text.hasUrl
  /\ served.out.response = served.model.text

\* A typed turn whose message says "too high" / "expensive" / "can't afford",
\* answered by the deterministic policy.
resisted(x) ==
  /\ x.req.origin = "submit"
  /\ x.path = "fallback"
  /\ x.req.message.resist

\* The term lengths a response offers.
offeredTerms(x) == {o.term : o \in x.out.response.offers}

\* The cap of the conversation that sent the request.
currentCap(x) == IF x.req.hardship THEN extendedCap ELSE baseCap

\* C25: when the user repeats a "too high / can't afford" message on
\* successive turns, the term length offered grows on each such turn until
\* it reaches the current cap, and never exceeds the cap.
C25_RepeatedResistanceWidensTerm ==
  [][(/\ served' # served
      /\ resisted(served)
      /\ resisted(served'))
     => \A t \in offeredTerms(served), u \in offeredTerms(served') :
          /\ u <= currentCap(served')
          /\ u > t \/ t = currentCap(served)]_vars

\* The amount the clarifying question asked about: the figure it displays,
\* times 1000 when K-suffixed.
askedAmount(question) ==
  IF question.kSuffix THEN question.figure * 1000 ELSE question.figure

\* C26: after the clarifying question about an ambiguous amount A (bare or
\* K-suffixed), the user's next answer sets the stored income estimate: to A
\* per month when the answer says monthly, to A / 12 rounded when it says
\* annual or yearly (A taken times 1000 when it was K-suffixed).
C26_ClarifyingAnswerSetsIncome ==
  [][\A resp \in responses :
       (/\ resp.origin = "submit"
        /\ resp \notin responses'
        /\ resp.req.previous.tmpl = "clarification"
        /\ resp.req.message.monthly \/ resp.req.message.annual)
       => userIncome' =
            IF resp.req.message.annual
            THEN monthlyOfAnnual(askedAmount(resp.req.previous))
            ELSE askedAmount(resp.req.previous)]_vars

\* C27: when a typed turn's request fails on the client side (network error
\* or non-OK status), the negotiation state after the turn equals the state
\* before it: a failed turn makes no phase transition.
C27_FailedTurnKeepsState ==
  [][(\E req \in requests :
        /\ req.origin = "submit"
        /\ req \notin requests'
        /\ responses' = responses)
     => negotiationState' = negotiationState]_vars

\* C28: whenever the response to a typed turn reports agreementReached = true,
\* the negotiation state is completed at the end of that turn, whatever the
\* user's message contained.
C28_AgreementCompletesTurn ==
  [][\A resp \in responses :
       (/\ resp.origin = "submit"
        /\ resp \notin responses'
        /\ resp.data.agreementReached)
       => negotiationState' = "completed"]_vars

\* C29: when the chat records a payment plan from a payment link returned by
\* the part_000 endpoint, the plan's monthlyPayment is the link's
\* termPaymentAmount cents divided by 100 (the base payment in dollars) and
\* its termLength is the link's termLength.
C29_PlanReadsLinkCents ==
  [][\A resp \in responses :
       (/\ handler = "part_000"
        /\ resp.origin = "submit"
        /\ resp \notin responses'
        /\ urlMatch(resp.data.response)
        /\ paymentPlan' # paymentPlan)
       => /\ paymentPlan'.monthlyPayment * 100
               = resp.data.response.link.termPaymentAmount
          /\ paymentPlan'.termLength = resp.data.response.link.termLength]_vars

\* The response answers a request that was sent before the last New Chat.
sentBeforeRefresh(resp) == resp.id < refreshedAt

\* C30: after New Chat, a response to a request sent before the refresh that
\* arrives after it does not add a message to the new conversation, change
\* its negotiation state, or set its payment plan.
C30_RefreshIsolatesLateResponses ==
  [][\A resp \in responses :
       (resp \notin responses' /\ sentBeforeRefresh(resp))
       => /\ messages' = messages
          /\ negotiationState' = negotiationState
          /\ paymentPlan' = paymentPlan]_vars

====
